---- MODULE Spec2Model ----
(***************************************************************************)
(* A model of toolkit-ai (dist/index.js, src/tools/NpmInfo.ts): the        *)
(* Toolkit facade, its three generation chains, the response parser and    *)
(* the npm lookup tools.                                                   *)
(*                                                                         *)
(* Strings that the code inspects are modelled by their content: a tool    *)
(* name is a sequence of characters, a chain response is a sequence of     *)
(* JSON tokens (the empty sequence is the empty string).                   *)
(***************************************************************************)
EXTENDS Integers, Sequences, FiniteSets, TLC

\* ------------------------------------------------------------------ bounds
\* Longest tool name, in characters, that the responses carry.
MaxNameLen == 2
\* Number of generateTool/iterateTool calls that may be in flight together.
MaxCalls == 2
\* Longest result list the package search backend returns.
MaxResults == 2

\* ------------------------------------------------------------- JSON values
\* A JSON value: type is one of string, number, null, array, object; s holds
\* the characters of a string or number; items holds the elements of an
\* array (key = <<>>) or the members of an object, in source order.
Str(s) == [type |-> "string", s |-> s, items |-> <<>>]
Num(s) == [type |-> "number", s |-> s, items |-> <<>>]
Null == [type |-> "null", s |-> <<>>, items |-> <<>>]
Arr(items) == [type |-> "array", s |-> <<>>, items |-> items]
Obj(items) == [type |-> "object", s |-> <<>>, items |-> items]
Member(k, v) == [key |-> k, val |-> v]
Elem(v) == [key |-> <<>>, val |-> v]

\* The value JavaScript calls undefined (an absent property).
Undefined == [type |-> "undefined", s |-> <<>>, items |-> <<>>]

\* A token of JSON text.  t is the token kind, v the characters it carries.
\* "word" is bare unquoted text, which no JSON value starts with.
Tok(t, v) == [t |-> t, v |-> v]
Punct(t) == Tok(t, <<>>)

RECURSIVE stringify(_)
RECURSIVE stringifyItems(_, _)
stringifyItems(items, isObject) ==
    IF items = <<>> THEN <<>>
    ELSE LET m == Head(items)
             one == (IF isObject THEN <<Tok("str", m.key), Punct(":")>> ELSE <<>>)
                        \o stringify(m.val)
         IN IF Len(items) = 1 THEN one
            ELSE one \o <<Punct(",")>> \o stringifyItems(Tail(items), isObject)

\* JSON.stringify: the text of a JSON value.
stringify(v) ==
    CASE v.type = "string" -> <<Tok("str", v.s)>>
      [] v.type = "number" -> <<Tok("num", v.s)>>
      [] v.type = "null" -> <<Punct("null")>>
      [] v.type = "array" -> <<Punct("[")>> \o stringifyItems(v.items, FALSE) \o <<Punct("]")>>
      [] v.type = "object" -> <<Punct("{")>> \o stringifyItems(v.items, TRUE) \o <<Punct("}")>>

ParseOk(v, rest) == [ok |-> TRUE, val |-> v, rest |-> rest]
ParseFail == [ok |-> FALSE, val |-> Null, rest |-> <<>>]

RECURSIVE ParseValue(_)
RECURSIVE ParseElems(_, _)
RECURSIVE ParseMembers(_, _)
\* After "[" or ",": one element, then "," or "]".
ParseElems(toks, acc) ==
    LET r == ParseValue(toks) IN
    IF ~r.ok \/ r.rest = <<>> THEN ParseFail
    ELSE IF Head(r.rest).t = "]" THEN ParseOk(Arr(Append(acc, Elem(r.val))), Tail(r.rest))
    ELSE IF Head(r.rest).t = "," THEN ParseElems(Tail(r.rest), Append(acc, Elem(r.val)))
    ELSE ParseFail

\* After "{" or ",": one "key": value member, then "," or "}".
ParseMembers(toks, acc) ==
    IF Len(toks) < 2 \/ Head(toks).t # "str" \/ toks[2].t # ":" THEN ParseFail
    ELSE LET r == ParseValue(Tail(Tail(toks)))
             m == Member(Head(toks).v, r.val)
         IN IF ~r.ok \/ r.rest = <<>> THEN ParseFail
            ELSE IF Head(r.rest).t = "}" THEN ParseOk(Obj(Append(acc, m)), Tail(r.rest))
            ELSE IF Head(r.rest).t = "," THEN ParseMembers(Tail(r.rest), Append(acc, m))
            ELSE ParseFail

ParseValue(toks) ==
    IF toks = <<>> THEN ParseFail
    ELSE LET h == Head(toks) IN
         CASE h.t = "str" -> ParseOk(Str(h.v), Tail(toks))
           [] h.t = "num" -> ParseOk(Num(h.v), Tail(toks))
           [] h.t = "null" -> ParseOk(Null, Tail(toks))
           [] h.t = "[" ->
                IF Len(toks) >= 2 /\ toks[2].t = "]" THEN ParseOk(Arr(<<>>), Tail(Tail(toks)))
                ELSE ParseElems(Tail(toks), <<>>)
           [] h.t = "{" ->
                IF Len(toks) >= 2 /\ toks[2].t = "}" THEN ParseOk(Obj(<<>>), Tail(Tail(toks)))
                ELSE ParseMembers(Tail(toks), <<>>)
           [] OTHER -> ParseFail

\* JSON.parse: the value of a text that is one JSON value and nothing else;
\* ok = FALSE is the SyntaxError it throws otherwise.
JSONparse(text) ==
    LET r == ParseValue(text) IN
    IF r.ok /\ r.rest = <<>> THEN [ok |-> TRUE, val |-> r.val]
    ELSE [ok |-> FALSE, val |-> Null]

\* obj[key] of a parsed object: the last member named key wins.
RECURSIVE Lookup(_, _)
Lookup(items, key) ==
    IF items = <<>> THEN Undefined
    ELSE IF items[Len(items)].key = key THEN items[Len(items)].val
    ELSE Lookup(SubSeq(items, 1, Len(items) - 1), key)

Get(v, key) == IF v.type = "object" THEN Lookup(v.items, key) ELSE Undefined

\* ------------------------------------------------------- GeneratedToolSchema
kName == <<"name">>
kDescription == <<"description">>
kInputSchema == <<"inputSchema">>
kOutputSchema == <<"outputSchema">>
kCode == <<"code">>
kSlug == <<"slug">>

\* The keys of z.object({...}) in declaration order, with the type each
\* requires: z.string() or z.record(JsonValueSchema).
SchemaShape ==
    << [key |-> kName, type |-> "string"],
       [key |-> kDescription, type |-> "string"],
       [key |-> kInputSchema, type |-> "object"],
       [key |-> kOutputSchema, type |-> "object"],
       [key |-> kCode, type |-> "string"] >>

SchemaKeys == {SchemaShape[i].key : i \in DOMAIN SchemaShape}

\* A schema all of whose keys are optional: only a value of another type is
\* an issue.
RECURSIVE SchemaIssuesPartial(_, _)
SchemaIssuesPartial(v, i) ==
    IF i > Len(SchemaShape) THEN <<>>
    ELSE (IF Get(v, SchemaShape[i].key).type \in {SchemaShape[i].type, "undefined"} THEN <<>>
          ELSE <<Tok("issue", SchemaShape[i].key)>>)
         \o SchemaIssuesPartial(v, i + 1)

\* The issues zod reports for an object: one per key of the shape whose value
\* is absent or of another type, in shape order.  Nothing is coerced.
RECURSIVE SchemaIssues(_, _)
SchemaIssues(v, i) ==
    IF i > Len(SchemaShape) THEN <<>>
    ELSE (IF Get(v, SchemaShape[i].key).type = SchemaShape[i].type THEN <<>>
          ELSE <<Tok("issue", SchemaShape[i].key)>>)
         \o SchemaIssues(v, i + 1)

MemberKeys(v) == {v.items[i].key : i \in DOMAIN v.items}

\* z.object().passthrough() keeps every key of the object.
ParsedKeysPassthrough(v) == SchemaKeys \cup MemberKeys(v)

\* z.object() strips the keys its shape does not name.
ParsedKeys(v) == SchemaKeys

\* GeneratedToolSchema.parse(v): the validated object, as a function from its
\* keys to their values, or the ZodError with its issues.
GeneratedToolSchemaParse(v) ==
    IF v.type # "object"
    THEN [ok |-> FALSE, issues |-> <<Tok("issue", <<>>)>>, obj |-> <<>>]
    ELSE LET issues == SchemaIssues(v, 1) IN
         IF issues # <<>> THEN [ok |-> FALSE, issues |-> issues, obj |-> <<>>]
         ELSE [ok |-> TRUE, issues |-> <<>>,
               obj |-> [k \in ParsedKeys(v) |-> Get(v, k)]]

\* ------------------------------------------------------------------ slugify
UpperChars == {"A"}
LowerChars == {"a", "b"}
ToLower(c) == IF c = "A" THEN "a" ELSE c
ToUpper(c) == IF c = "a" THEN "A" ELSE IF c = "b" THEN "B" ELSE c

\* decamelize: a space goes between s[i] and s[i+1] where a lower-case
\* character meets an upper-case one, and before the last capital of a run
\* of capitals that a lower-case character follows.
Boundary(s, i) ==
    \/ s[i] \in LowerChars /\ s[i + 1] \in UpperChars
    \/ /\ s[i] \in UpperChars /\ s[i + 1] \in UpperChars
       /\ i + 2 <= Len(s) /\ s[i + 2] \in LowerChars

RECURSIVE decamelizeFrom(_, _)
decamelizeFrom(s, i) ==
    IF i > Len(s) THEN <<>>
    ELSE <<s[i]>>
         \o (IF i < Len(s) /\ Boundary(s, i) THEN <<" ">> ELSE <<>>)
         \o decamelizeFrom(s, i + 1)
decamelize(s) == decamelizeFrom(s, 1)

toLowerCase(s) == [i \in DOMAIN s |-> ToLower(s[i])]

\* Every run of characters outside [a-z0-9] becomes one separator, and the
\* separators at both ends are dropped.
RECURSIVE separate(_, _)
separate(s, acc) ==
    IF s = <<>> THEN acc
    ELSE IF Head(s) \in LowerChars THEN separate(Tail(s), Append(acc, Head(s)))
    ELSE IF acc = <<>> \/ acc[Len(acc)] = "-" THEN separate(Tail(s), acc)
    ELSE separate(Tail(s), Append(acc, "-"))

trimSeparator(s) ==
    IF s # <<>> /\ s[Len(s)] = "-" THEN SubSeq(s, 1, Len(s) - 1) ELSE s

slugify(s) == trimSeparator(separate(toLowerCase(decamelize(s)), <<>>))

\* ------------------------------------------------------------ ToolFormatter
\* camelCase(slug, {pascalCase: true}): the separators go and the character
\* after each, and the first, is capitalised.
RECURSIVE pascalCase(_, _)
pascalCase(s, up) ==
    IF s = <<>> THEN <<>>
    ELSE IF Head(s) = "-" THEN pascalCase(Tail(s), TRUE)
    ELSE <<IF up THEN ToUpper(Head(s)) ELSE Head(s)>> \o pascalCase(Tail(s), FALSE)

\* The source text prettier's babel parser accepts: here, the texts whose
\* parentheses balance.
RECURSIVE Balanced(_, _)
Balanced(code, depth) ==
    IF code = <<>> THEN depth = 0
    ELSE IF Head(code) = "(" THEN Balanced(Tail(code), depth + 1)
    ELSE IF Head(code) = ")" THEN depth > 0 /\ Balanced(Tail(code), depth - 1)
    ELSE Balanced(Tail(code), depth)

\* format(code, {parser: 'babel'}): throws on text that does not parse, and
\* otherwise ends the statement with a semicolon and a newline.
format(code) ==
    IF ~Balanced(code, 0) THEN [ok |-> FALSE, code |-> <<>>]
    ELSE [ok |-> TRUE,
          code |-> (IF code # <<>> /\ code[Len(code)] = ";" THEN code
                    ELSE Append(code, ";")) \o <<"\n">>]

\* JSON.stringify(schema || null, null, 2): the token model carries no white
\* space, so the indentation leaves the tokens as they are.
stringifyJsonSchema(jsonSchema) ==
    stringify(IF jsonSchema.type = "undefined" THEN Null ELSE jsonSchema)

\* replaceAll('{', '{{').replaceAll('}', '}}')
RECURSIVE escapeBraces(_)
escapeBraces(text) ==
    IF text = <<>> THEN <<>>
    ELSE (IF Head(text).t \in {"{", "}"} THEN <<Head(text), Head(text)>> ELSE <<Head(text)>>)
         \o escapeBraces(Tail(text))

toLangChainDescription(description, inputSchemaString) ==
    [text |-> IF description # <<>> /\ description[Len(description)] = "."
              THEN description ELSE Append(description, "."),
     schema |-> escapeBraces(inputSchemaString)]

OptionalKey(tool, k) == IF k \in DOMAIN tool THEN tool[k] ELSE Undefined

\* ToolFormatter.toLangChain: the values handed to the langchain-tool
\* template, or the error format() throws.
toLangChain(tool) ==
    LET toolCode == format(tool[kCode].s) IN
    [ok |-> toolCode.ok,
     className |-> pascalCase(tool[kSlug].s, TRUE),
     toolCode |-> toolCode.code,
     toolSlug |-> tool[kSlug].s,
     langchainDescription |->
         toLangChainDescription(tool[kDescription].s,
                                stringifyJsonSchema(OptionalKey(tool, kInputSchema))),
     inputSchema |-> stringifyJsonSchema(OptionalKey(tool, kInputSchema)),
     outputSchema |-> stringifyJsonSchema(OptionalKey(tool, kOutputSchema))]

\* ---------------------------------------------------- Toolkit.parseResponse
NoTool == [slug |-> <<>>, name |-> <<>>, fields |-> <<>>, langChainCode |-> <<>>]
NoError == [name |-> "", message |-> "", detail |-> <<>>]
Returned(tool) == [status |-> "returned", tool |-> tool, error |-> NoError]
Thrown(name, message, detail) ==
    [status |-> "thrown", tool |-> NoTool,
     error |-> [name |-> name, message |-> message, detail |-> detail]]
Pending == [status |-> "pending", tool |-> NoTool, error |-> NoError]

\* { slug: slugify(generatedTool.name), ...generatedTool }: a key of
\* generatedTool overrides the slug written before the spread.
BaseTool(generatedTool) ==
    [k \in {kSlug} \cup DOMAIN generatedTool |->
        IF k \in DOMAIN generatedTool THEN generatedTool[k]
        ELSE Str(slugify(generatedTool[kName].s))]

\* parseResponse after JSON.parse: GeneratedToolSchema.parse, the slug, and
\* the formatter.  The returned tool carries its slug and name (as
\* characters), all its fields, and the langchain code.
parseObject(responseObject) ==
    LET generatedTool == GeneratedToolSchemaParse(responseObject) IN
    IF ~generatedTool.ok THEN Thrown("ZodError", "invalid type", generatedTool.issues)
    ELSE LET baseTool == BaseTool(generatedTool.obj)
             langChainCode == toLangChain(baseTool)
         IN IF ~langChainCode.ok
            THEN Thrown("SyntaxError", "code could not be formatted", <<>>)
            ELSE Returned([slug |-> baseTool[kSlug].s,
                           name |-> baseTool[kName].s,
                           fields |-> baseTool,
                           langChainCode |-> langChainCode])

\* A parseResponse without the try/catch around JSON.parse.
parseResponseUncaught(responseString) ==
    LET responseObject == JSONparse(responseString) IN
    IF ~responseObject.ok THEN Thrown("SyntaxError", "Unexpected token in JSON", <<>>)
    ELSE parseObject(responseObject.val)

\* parseResponse: JSON.parse inside try/catch, whose catch throws the error
\* that quotes the response, then the rest.
parseResponse(responseString) ==
    LET responseObject == JSONparse(responseString) IN
    IF ~responseObject.ok
    THEN Thrown("Error", "response could not be parsed as JSON: ", responseString)
    ELSE parseObject(responseObject.val)

\* ----------------------------------------------------- BaseChain.generate
ChainNames == {"generator", "executor", "iterator"}

\* Every chain reading the agent's field.
getOutputKeyOutput(chain) == "output"

\* getOutputKey of SimpleChain (the generator chain), ExecutorChain and
\* IteratorChain.
getOutputKey(chain) == IF chain = "generator" THEN "text" ELSE "output"

\* The tools an agent chain is built with; the simple chain has none.
ChainTools(chain) ==
    IF chain = "generator" THEN <<>> ELSE <<"npm-search", "npm-info", "search">>

\* The values chain.call resolved to: one named field holding a string.
ResponseValues(key, value) == [key |-> key, value |-> value]
NoResponse == [key |-> "", value |-> <<>>]

\* responseValues[outputKey]; defined = FALSE is undefined.
Field(responseValues, outputKey) ==
    IF responseValues.key = outputKey
    THEN [defined |-> TRUE, value |-> responseValues.value]
    ELSE [defined |-> FALSE, value |-> <<>>]

\* !responseString: undefined and the empty string are falsy.
Not(responseString) == ~responseString.defined \/ responseString.value = <<>>

Generated(text) == [status |-> "returned", text |-> text, error |-> NoError]
GenerateThrown(name, message, detail) ==
    [status |-> "thrown", text |-> <<>>,
     error |-> [name |-> name, message |-> message, detail |-> detail]]
NotGenerated == [status |-> "pending", text |-> <<>>, error |-> NoError]

\* generate after chain.call resolved: the named field, or the error that
\* names the key.
generateReturn(chain, responseValues) ==
    LET outputKey == getOutputKey(chain)
        responseString == Field(responseValues, outputKey)
    IN IF Not(responseString)
       THEN GenerateThrown("Error", "value not returned from chain call",
                           <<Tok("word", <<outputKey>>)>>)
       ELSE Generated(responseString.value)

\* generateTool / iterateTool after generate settled: a rejection passes
\* through, a response string goes to parseResponse.
toolReturn(generated) ==
    IF generated.status = "thrown"
    THEN [status |-> "thrown", tool |-> NoTool, error |-> generated.error]
    ELSE parseResponse(generated.text)

\* The branches as the parameter's name reads.
generateToolChainAsNamed(withExecutor) == IF withExecutor THEN "executor" ELSE "generator"

\* The chain generateTool calls for its second argument, and the one
\* iterateTool calls.
generateToolChain(withExecutor) == IF withExecutor THEN "generator" ELSE "executor"
iterateToolChain == "iterator"

\* ------------------------------------------------------------- input sets
NameChars == {"A", "b", " "}
SeqsUpTo(S, n) == UNION {[1..k -> S] : k \in 0..n}
Names == SeqsUpTo(NameChars, MaxNameLen)

Five == Num(<<"5">>)
GoodCode == <<"f", "(", ")">>
BadCode == <<"f", "(">>
TypeObject == Obj(<<Member(<<"type">>, Str(<<"object">>))>>)

\* An object with the members whose value is given (Undefined: left out).
Present(m) == m.val.type # "undefined"
ToolObject(name, description, inputSchema, outputSchema, code, slug) ==
    Obj(SelectSeq(<< Member(kName, name), Member(kDescription, description),
                     Member(kInputSchema, inputSchema),
                     Member(kOutputSchema, outputSchema),
                     Member(kCode, code), Member(kSlug, slug) >>, Present))

NameValues == {Undefined, Five} \cup {Str(n) : n \in Names}
DescriptionValues == {Undefined, Five, Str(<<"d">>), Str(<<"d", ".">>)}
InputSchemaValues == {Undefined, Null, Arr(<<>>), Str(<<"s">>), Obj(<<>>), TypeObject}
OutputSchemaValues == {Undefined, Arr(<<>>), Obj(<<>>)}
CodeValues == {Undefined, Five, Str(GoodCode), Str(BadCode)}
SlugValues == {Undefined, Str(<<"e", "v">>)}

\* JSON objects of every shape, valid tools among them.
ObjectValues ==
    {ToolObject(n, d, i, o, c, s) :
        n \in NameValues, d \in DescriptionValues, i \in InputSchemaValues,
        o \in OutputSchemaValues, c \in CodeValues, s \in SlugValues}

\* JSON values that are no object.
OtherValues == {Null, Five, Str(<<"s">>), Arr(<<>>), Arr(<<Elem(Obj(<<>>))>>)}

ValidTool(name, slug) ==
    ToolObject(Str(name), Str(<<"d">>), Obj(<<>>), Obj(<<>>), Str(GoodCode), slug)

\* Texts that are not JSON: the empty string, bare words, a JSON text cut
\* short, and a JSON text with a token too many.
NotJson == <<Tok("word", <<"not">>), Tok("word", <<"json">>)>>
CutShort(text) == SubSeq(text, 1, Len(text) - 1)
NonJsonTexts ==
    {<<>>, NotJson}
    \cup {CutShort(stringify(v)) : v \in {Null, Arr(<<>>), ValidTool(<<"A">>, Undefined)}}
    \cup {stringify(v) \o <<Punct(",")>> : v \in {Five, Obj(<<>>)}}
    \cup {<<Punct("{"), Tok("word", <<"name">>), Punct(":"), Tok("str", <<"A">>), Punct("}")>>}

JsonTexts == {stringify(v) : v \in ObjectValues \cup OtherValues}
ParseTexts == NonJsonTexts \cup JsonTexts

\* ------------------------------------------------------------------- state
VARIABLES
    env,        \* process.env: OPENAI_API_KEY and SERP_API_KEY
    attempt,    \* the latest new Toolkit(input): its input and how it ended
    toolkit,    \* the Toolkit instance the latest constructor call left
    chains,     \* per chain of the toolkit: its tools list and the handlers
                \* of its callbackManager
    calls,      \* the generateTool / iterateTool calls, by call id
    parse,      \* response texts handed to parseResponse and what came back
    lookup      \* per lookup tool: its latest _call and what it resolved to

vars == <<env, attempt, toolkit, chains, calls, parse, lookup>>

\* --------------------------------------------- parseResponse on its own
\* A response text under test.  value is the JSON value the text was written
\* from (json = TRUE) and is unused for a text that is not JSON.
Slot(text, json, value) ==
    [text |-> text, json |-> json, value |-> value, via |-> "", out |-> Pending]

ParseSlots ==
    {Slot(t, FALSE, Null) : t \in NonJsonTexts}
    \cup {Slot(stringify(v), TRUE, v) : v \in ObjectValues \cup OtherValues}

\* Valid tools that differ in name, description, output schema and in an
\* extra slug key of their own.
SlugSlots ==
    {Slot(stringify(v), TRUE, v) :
        v \in {ToolObject(Str(n), d, Obj(<<>>), Obj(<<>>), Str(GoodCode), s) :
                  n \in Names, d \in {Str(<<"d">>), Str(<<"d", ".">>)}, s \in SlugValues}}

\* toolkit.parseResponse(text), called directly.
ParseResponseCall(i) ==
    /\ parse[i].via = ""
    /\ parse' = [parse EXCEPT ![i].via = "parseResponse",
                              ![i].out = parseResponse(parse[i].text)]
    /\ UNCHANGED <<env, attempt, toolkit, chains, calls, lookup>>

\* generateTool / iterateTool whose chain resolved to { [outputKey]: text }:
\* the rest of generate, then of the method.
ChainReturns(i, chain) ==
    /\ parse[i].via = ""
    /\ parse' = [parse EXCEPT
                    ![i].via = chain,
                    ![i].out = toolReturn(generateReturn(chain,
                                   ResponseValues(getOutputKey(chain), parse[i].text)))]
    /\ UNCHANGED <<env, attempt, toolkit, chains, calls, lookup>>

\* ----------------------------------------------------- Toolkit constructor
\* A credential: undefined, or a string (the empty string among them).
Absent == [defined |-> FALSE, value |-> ""]
Key(value) == [defined |-> TRUE, value |-> value]
Truthy(k) == k.defined /\ k.value # ""

\* b || a
OrSwapped(a, b) == IF Truthy(b) THEN b ELSE a

\* a || b
Or(a, b) == IF Truthy(a) THEN a ELSE b

KeyValues(name) == {Absent, Key(""), Key(name)}

\* The constructor's argument; given = FALSE is new Toolkit() without one.
\* logToConsole is "undefined", "false" or "true".
NoInput ==
    [given |-> FALSE, openAIApiKey |-> Absent, serpApiKey |-> Absent,
     logToConsole |-> "undefined"]
Inputs ==
    {NoInput}
    \cup [given : {TRUE}, openAIApiKey : KeyValues("k1"), serpApiKey : KeyValues("k2"),
          logToConsole : {"undefined", "false", "true"}]

NoToolkit ==
    [constructed |-> FALSE, openAIApiKey |-> Absent, serpApiKey |-> Absent,
     logToConsole |-> FALSE]
NoChains == [ch \in ChainNames |-> [built |-> FALSE, tools |-> <<>>, handlers |-> {}]]
\* new SimpleChain / ExecutorChain / IteratorChain: the tools list is built
\* and the chain's callbackManager starts without handlers.
NewChains ==
    [ch \in ChainNames |-> [built |-> TRUE, tools |-> ChainTools(ch), handlers |-> {}]]

NoAttempt == [made |-> FALSE, input |-> NoInput, threw |-> ""]

\* new Toolkit(input): both credentials are resolved and checked, then the
\* three chains are constructed.  A throw leaves no instance.
NewToolkit(input) ==
    LET openAIApiKey == Or(input.openAIApiKey, env.OPENAI_API_KEY)
        serpApiKey == Or(input.serpApiKey, env.SERP_API_KEY)
        logToConsole == (input.logToConsole = "true")
    IN /\ IF ~Truthy(openAIApiKey)
          THEN /\ attempt' = [made |-> TRUE, input |-> input,
                              threw |-> "OpenAI API key not defined in params or environment"]
               /\ toolkit' = NoToolkit
               /\ chains' = NoChains
          ELSE IF ~Truthy(serpApiKey)
          THEN /\ attempt' = [made |-> TRUE, input |-> input,
                              threw |-> "Serp API key not defined in params or environment"]
               /\ toolkit' = NoToolkit
               /\ chains' = NoChains
          ELSE /\ attempt' = [made |-> TRUE, input |-> input, threw |-> ""]
               /\ toolkit' = [constructed |-> TRUE, openAIApiKey |-> openAIApiKey,
                              serpApiKey |-> serpApiKey, logToConsole |-> logToConsole]
               /\ chains' = NewChains
       /\ UNCHANGED <<env, calls, parse, lookup>>

\* ------------------------------------------- generateTool and iterateTool
CallIds == 1..MaxCalls

\* What the model returns to the chain under test.
MainTexts ==
    {<<>>, NotJson,
     stringify(ValidTool(<<"A", "b">>, Undefined)),
     stringify(ToolObject(Undefined, Str(<<"d">>), Obj(<<>>), Obj(<<>>), Str(GoodCode), Undefined))}
ResponseKeys == {"text", "output"}

IdleCall ==
    [pc |-> "idle", method |-> "", arg |-> "", chain |-> "", invoked |-> <<>>,
     seen |-> {}, response |-> NoResponse, rejected |-> FALSE,
     generated |-> NotGenerated, result |-> Pending]

\* addHandler without the logToConsole test.
addHandlerAlways(chain, c) == chains[chain].handlers \cup {c}

\* if (this.logToConsole) addHandler(consoleCallbackHandler): the handler
\* set of the chain's callbackManager after it.  Each generate call makes a
\* handler of its own, named by the call.
addHandler(chain, c) ==
    IF toolkit.logToConsole THEN chains[chain].handlers \cup {c}
    ELSE chains[chain].handlers

\* if (this.logToConsole) removeHandler(consoleCallbackHandler)
removeHandler(chain, c) ==
    IF toolkit.logToConsole THEN chains[chain].handlers \ {c}
    ELSE chains[chain].handlers

\* generate up to its await: the handler is attached and chain.call is
\* issued, which reads the chain's tools and traces to the handlers attached.
Generate(c, method, arg, chain) ==
    /\ chains' = [chains EXCEPT ![chain].handlers = addHandler(chain, c)]
    /\ calls' = [calls EXCEPT ![c] =
                    [@ EXCEPT !.pc = "awaiting", !.method = method, !.arg = arg,
                              !.chain = chain,
                              !.invoked = Append(@, chain),
                              !.seen = addHandler(chain, c)]]

\* toolkit.generateTool(input, arg): arg is "omitted", "false" or "true", and
\* an omitted one defaults to false.
GenerateTool(c, arg) ==
    /\ toolkit.constructed
    /\ calls[c].pc = "idle"
    /\ Generate(c, "generateTool", arg, generateToolChain(arg = "true"))
    /\ UNCHANGED <<env, attempt, toolkit, parse, lookup>>

\* toolkit.iterateTool(input)
IterateTool(c) ==
    /\ toolkit.constructed
    /\ calls[c].pc = "idle"
    /\ Generate(c, "iterateTool", "", iterateToolChain)
    /\ UNCHANGED <<env, attempt, toolkit, parse, lookup>>

\* chain.call resolves: generate checks the named field, throws or detaches
\* the handler and returns, and the method goes on to parseResponse.  The
\* method's own continuation touches nothing shared and is taken with it.
ChainCallResolves(c, responseValues) ==
    /\ calls[c].pc = "awaiting"
    /\ LET chain == calls[c].chain
           generated == generateReturn(chain, responseValues)
       IN /\ chains' = [chains EXCEPT ![chain].handlers =
                            IF generated.status = "thrown" THEN @
                            ELSE removeHandler(chain, c)]
          /\ calls' = [calls EXCEPT ![c] =
                          [@ EXCEPT !.pc = "done", !.response = responseValues,
                                    !.generated = generated,
                                    !.result = toolReturn(generated)]]
    /\ UNCHANGED <<env, attempt, toolkit, parse, lookup>>

\* A rejection answered by issuing chain.call again.
ChainCallRetried(c) ==
    /\ calls[c].pc = "awaiting"
    /\ Len(calls[c].invoked) < 2
    /\ calls' = [calls EXCEPT ![c].invoked = Append(@, calls[c].chain)]
    /\ UNCHANGED <<env, attempt, toolkit, chains, parse, lookup>>

\* chain.call rejects: generate and the method reject with the same error,
\* past the removeHandler line.
ChainCallRejects(c) ==
    /\ calls[c].pc = "awaiting"
    /\ LET generated == GenerateThrown("TransportError", "request failed", <<>>)
       IN calls' = [calls EXCEPT ![c] =
                        [@ EXCEPT !.pc = "done", !.rejected = TRUE,
                                  !.generated = generated,
                                  !.result = toolReturn(generated)]]
    /\ UNCHANGED <<env, attempt, toolkit, chains, parse, lookup>>

\* ----------------------------------------------------------- lookup tools
Queries == {"zod", "left pad"}
Packages == {"zod", "left-pad"}
Causes == {"FetchError"}

\* What getPackument / searchPackages did: threw cause, or resolved with
\* readme (undefined or a string) / with objects (a list of packages).
BackendThrew(cause) ==
    [threw |-> TRUE, cause |-> cause, readme |-> Absent, objects |-> <<>>]
Packument(readme) ==
    [threw |-> FALSE, cause |-> "", readme |-> readme, objects |-> <<>>]
SearchResults(objects) ==
    [threw |-> FALSE, cause |-> "", readme |-> Absent, objects |-> objects]

InfoOutcomes ==
    {BackendThrew(e) : e \in Causes}
    \cup {Packument(r) : r \in {Absent, Key(""), Key("# zod")}}
SearchOutcomes ==
    {BackendThrew(e) : e \in Causes}
    \cup {SearchResults(o) : o \in SeqsUpTo(Packages, MaxResults)}

Resolved(text) == [made |-> TRUE, settled |-> "resolved", text |-> text]
Rejected(cause) == [made |-> TRUE, settled |-> "rejected", text |-> <<Tok("word", <<cause>>)>>]
NoLookup ==
    [query |-> "", outcome |-> Packument(Absent),
     promise |-> [made |-> FALSE, settled |-> "", text |-> <<>>]]

ErrorText(cause) == <<Tok("word", <<"Error: ">>), Tok("word", <<cause>>)>>

\* An NpmInfo._call without the try/catch.
NpmInfo_callUncaught(packageName, outcome) ==
    IF outcome.threw THEN Rejected(outcome.cause)
    ELSE Resolved(<<Tok("text", <<Or(outcome.readme, Key("No details available")).value>>)>>)

\* NpmInfo._call: the readme, 'No details available' for a falsy readme,
\* and `Error: ${err}` from the catch.
NpmInfo_call(packageName, outcome) ==
    IF outcome.threw THEN Resolved(ErrorText(outcome.cause))
    ELSE Resolved(<<Tok("text", <<Or(outcome.readme, Key("No details available")).value>>)>>)

\* The {name, description, score} entry NpmSearch makes of a search result.
Info(package) ==
    Obj(<<Member(kName, Str(<<package>>)),
          Member(kDescription, Str(<<"about ", package>>)),
          Member(<<"score">>, Five)>>)

\* NpmSearch._call: 'Error: no results' for an empty list, the JSON text of
\* the mapped list, and `Error: ${err}` from the catch.
NpmSearch_call(searchString, outcome) ==
    IF outcome.threw THEN Resolved(ErrorText(outcome.cause))
    ELSE IF Len(outcome.objects) < 1 THEN Resolved(ErrorText("no results"))
    ELSE Resolved(stringify(Arr([i \in DOMAIN outcome.objects |->
                                    Elem(Info(outcome.objects[i]))])))

NpmInfoCall(q, outcome) ==
    /\ lookup' = [lookup EXCEPT !["npm-info"] =
                     [query |-> q, outcome |-> outcome, promise |-> NpmInfo_call(q, outcome)]]
    /\ UNCHANGED <<env, attempt, toolkit, chains, calls, parse>>

NpmSearchCall(q, outcome) ==
    /\ lookup' = [lookup EXCEPT !["npm-search"] =
                     [query |-> q, outcome |-> outcome, promise |-> NpmSearch_call(q, outcome)]]
    /\ UNCHANGED <<env, attempt, toolkit, chains, calls, parse>>

\* ---------------------------------------------------------- specifications
NoEnv == [OPENAI_API_KEY |-> Absent, SERP_API_KEY |-> Absent]
Envs == [OPENAI_API_KEY : KeyValues("e1"), SERP_API_KEY : KeyValues("e2")]
NoLookups == [t \in {"npm-info", "npm-search"} |-> NoLookup]
NoCalls == [c \in CallIds |-> IdleCall]

\* The calls on a Toolkit constructed with both keys, with or without
\* logToConsole.
Init ==
    /\ env = NoEnv
    /\ attempt \in {[made |-> TRUE, threw |-> "",
                     input |-> [given |-> TRUE, openAIApiKey |-> Key("k1"),
                                serpApiKey |-> Key("k2"), logToConsole |-> l]] :
                       l \in {"undefined", "false", "true"}}
    /\ toolkit = [constructed |-> TRUE, openAIApiKey |-> Key("k1"),
                  serpApiKey |-> Key("k2"),
                  logToConsole |-> (attempt.input.logToConsole = "true")]
    /\ chains = NewChains
    /\ calls = NoCalls
    /\ parse = <<>>
    /\ lookup = NoLookups

Next ==
    \/ \E c \in CallIds, arg \in {"omitted", "false", "true"} : GenerateTool(c, arg)
    \/ \E c \in CallIds : IterateTool(c)
    \/ \E c \in CallIds, k \in ResponseKeys, t \in MainTexts :
           ChainCallResolves(c, ResponseValues(k, t))
    \/ \E c \in CallIds : ChainCallRejects(c)

Spec == Init /\ [][Next]_vars

\* Construction, from every environment.
InitToolkit ==
    /\ env \in Envs
    /\ attempt = NoAttempt
    /\ toolkit = NoToolkit
    /\ chains = NoChains
    /\ calls = NoCalls
    /\ parse = <<>>
    /\ lookup = NoLookups

NextToolkit == \E input \in Inputs : NewToolkit(input)

SpecToolkit == InitToolkit /\ [][NextToolkit]_vars

\* parseResponse and the return path of the two methods, on every text.
InitParse ==
    /\ env = NoEnv
    /\ attempt = NoAttempt
    /\ toolkit = NoToolkit
    /\ chains = NoChains
    /\ calls = NoCalls
    /\ parse \in {<<s>> : s \in ParseSlots}
    /\ lookup = NoLookups

NextParse ==
    \/ \E i \in DOMAIN parse : ParseResponseCall(i)
    \/ \E i \in DOMAIN parse, chain \in ChainNames : ChainReturns(i, chain)

SpecParse == InitParse /\ [][NextParse]_vars

\* parseResponse on two valid tools.
InitSlug ==
    /\ env = NoEnv
    /\ attempt = NoAttempt
    /\ toolkit = NoToolkit
    /\ chains = NoChains
    /\ calls = NoCalls
    /\ parse \in {<<s1, s2>> : s1 \in SlugSlots, s2 \in SlugSlots}
    /\ lookup = NoLookups

NextSlug == \E i \in DOMAIN parse : ParseResponseCall(i)

SpecSlug == InitSlug /\ [][NextSlug]_vars

\* The lookup tools, on every outcome of their backend.
InitLookup ==
    /\ env = NoEnv
    /\ attempt = NoAttempt
    /\ toolkit = NoToolkit
    /\ chains = NoChains
    /\ calls = NoCalls
    /\ parse = <<>>
    /\ lookup = NoLookups

NextLookup ==
    \/ \E q \in Queries, outcome \in InfoOutcomes : NpmInfoCall(q, outcome)
    \/ \E q \in Queries, outcome \in SearchOutcomes : NpmSearchCall(q, outcome)

SpecLookup == InitLookup /\ [][NextLookup]_vars

\* ------------------------------------------------------------- properties
Done(c) == calls[c].pc = "done"

\* C1: every finished generate call has detached the console handler it
\* attached, whether chain.call resolved, rejected, or the output field was
\* missing; no handler of a finished call stays on its chain.
C1_HandlerDetached ==
    \A c \in CallIds : Done(c) => c \notin chains[calls[c].chain].handlers

\* C2 (as stated): concurrent calls never modify the state the chains own,
\* and no call sees a handler another call attached.
C2_NoSharedWrites ==
    [][chains' = chains /\ \A c \in CallIds : calls'[c].seen \subseteq {c}]_vars

\* C2 (amended): no call changes a chain's tools list or replaces a chain;
\* the handler set of a callbackManager changes only on a toolkit built with
\* logToConsole = true; without logToConsole no call changes any shared
\* state or sees a handler at all.
C2_SharedWritesOnlyWhenLogging ==
    [][/\ \A ch \in ChainNames : /\ chains'[ch].tools = chains[ch].tools
                                 /\ chains'[ch].built = chains[ch].built
       /\ chains' # chains => toolkit.logToConsole
       /\ ~toolkit.logToConsole => \A c \in CallIds : calls'[c].seen = {}]_vars

\* Two calls on a toolkit without logToConsole, one finished while the other
\* is in flight, and the chains as constructed.
C2_Witness ==
    /\ ~toolkit.logToConsole
    /\ chains = NewChains
    /\ \E c1, c2 \in CallIds :
          /\ c1 # c2
          /\ calls[c1].pc = "awaiting" /\ Done(c2)
          /\ calls[c1].chain = calls[c2].chain

\* C3: generateTool with the second argument omitted or false issues exactly
\* one chain.call, on the executor chain; with true exactly one, on the simple
\* (generator) chain; iterateTool exactly one, on the iterator chain.
C3_ChainSelection ==
    \A c \in CallIds :
        calls[c].pc # "idle" =>
            calls[c].invoked =
                << IF calls[c].method = "iterateTool" THEN "iterator"
                   ELSE IF calls[c].arg = "true" THEN "generator"
                   ELSE "executor" >>

C3_Witness ==
    \E c1, c2 \in CallIds :
        /\ Done(c1) /\ calls[c1].method = "generateTool" /\ calls[c1].arg = "omitted"
        /\ calls[c1].invoked = <<"executor">>
        /\ Done(c2) /\ calls[c2].method = "generateTool" /\ calls[c2].arg = "true"
        /\ calls[c2].invoked = <<"generator">>

IsParseError(out, text) ==
    /\ out.status = "thrown"
    /\ out.tool = NoTool
    /\ out.error.name = "Error"
    /\ out.error.message = "response could not be parsed as JSON: "
    /\ out.error.detail = text

IsMissingOutput(out) ==
    /\ out.status = "thrown"
    /\ out.error.name = "Error"
    /\ out.error.message = "value not returned from chain call"

\* C4 (as stated): for every text that is not JSON, parseResponse, and
\* generateTool / iterateTool when the chain returns that text, fail with the
\* parse error that quotes the text.
C4_NonJsonIsParseError ==
    \A i \in DOMAIN parse :
        parse[i].via # "" /\ ~parse[i].json => IsParseError(parse[i].out, parse[i].text)

\* C4 (amended): for every text that is not JSON, parseResponse fails with
\* the parse error that quotes the text and returns no tool; generateTool and
\* iterateTool do the same when the chain returns such a text that is not
\* empty, and reject with generate's missing-output error when it is empty.
C4_NonEmptyNonJsonIsParseError ==
    \A i \in DOMAIN parse :
        parse[i].via # "" /\ ~parse[i].json =>
            IF parse[i].via = "parseResponse" \/ parse[i].text # <<>>
            THEN IsParseError(parse[i].out, parse[i].text)
            ELSE IsMissingOutput(parse[i].out) /\ parse[i].out.tool = NoTool

C4_Witness ==
    \E i \in DOMAIN parse :
        /\ parse[i].via = "executor"
        /\ parse[i].text = NotJson
        /\ IsParseError(parse[i].out, NotJson)

\* The GeneratedTool shape, read off a JSON value.
MatchesShape(v) ==
    /\ v.type = "object"
    /\ \A k \in {kName, kDescription, kCode} : Get(v, k).type = "string"
    /\ \A k \in {kInputSchema, kOutputSchema} : Get(v, k).type = "object"

\* C5: for every JSON text whose value is not of the GeneratedTool shape,
\* parseResponse fails with the schema error, which lists each missing
\* required string, and returns no tool.
C5_ShapeMismatchIsSchemaError ==
    \A i \in DOMAIN parse :
        parse[i].via # "" /\ parse[i].json /\ ~MatchesShape(parse[i].value) =>
            /\ parse[i].out.status = "thrown"
            /\ parse[i].out.tool = NoTool
            /\ parse[i].out.error.name = "ZodError"
            /\ parse[i].value.type = "object" =>
                  \A k \in {kName, kDescription, kCode} :
                      Get(parse[i].value, k).type # "string" =>
                          \E j \in DOMAIN parse[i].out.error.detail :
                              parse[i].out.error.detail[j] = Tok("issue", k)

C5_Witness ==
    \E i \in DOMAIN parse :
        /\ parse[i].via = "parseResponse"
        /\ parse[i].json
        /\ parse[i].value.type = "object"
        /\ Get(parse[i].value, kName).type = "undefined"
        /\ Get(parse[i].value, kCode).type = "string"
        /\ parse[i].out.error.name = "ZodError"

ResolvedKey(explicit, fromEnv) == IF Truthy(explicit) THEN explicit ELSE fromEnv

\* C6: new Toolkit(input) takes each credential from its input when one is
\* given (a non-empty string) and from the environment otherwise; it yields
\* an instance exactly when both resolve, and otherwise throws with no chain
\* constructed and no call issued.  Both keys given and both environment
\* variables unset: it succeeds.
C6_Construction ==
    attempt.made =>
        LET openAIApiKey == ResolvedKey(attempt.input.openAIApiKey, env.OPENAI_API_KEY)
            serpApiKey == ResolvedKey(attempt.input.serpApiKey, env.SERP_API_KEY)
        IN /\ toolkit.constructed <=> Truthy(openAIApiKey) /\ Truthy(serpApiKey)
           /\ toolkit.constructed =>
                 /\ toolkit.openAIApiKey = openAIApiKey
                 /\ toolkit.serpApiKey = serpApiKey
                 /\ attempt.threw = ""
                 /\ \A ch \in ChainNames : chains[ch].built
           /\ ~toolkit.constructed =>
                 /\ attempt.threw # ""
                 /\ \A ch \in ChainNames : ~chains[ch].built
                 /\ \A c \in CallIds : calls[c].invoked = <<>>
           /\ /\ attempt.input.openAIApiKey = Key("k1")
              /\ attempt.input.serpApiKey = Key("k2")
              /\ env = NoEnv
              => toolkit.constructed

\* An explicit model key beside a different one in the environment, and the
\* search key from the environment alone.
C6_Witness ==
    /\ attempt.made
    /\ attempt.input.openAIApiKey = Key("k1") /\ env.OPENAI_API_KEY = Key("e1")
    /\ ~Truthy(attempt.input.serpApiKey) /\ env.SERP_API_KEY = Key("e2")
    /\ toolkit.constructed
    /\ toolkit.openAIApiKey = Key("k1") /\ toolkit.serpApiKey = Key("e2")

\* C7: a lookup tool's _call never rejects.  NpmInfo resolves to the readme,
\* to 'No details available' without one, or to 'Error: <cause>'; NpmSearch
\* to the JSON text of one entry per result, to 'Error: no results' for an
\* empty list, or to 'Error: <cause>'.
C7_LookupNeverRaises ==
    /\ LET l == lookup["npm-info"] IN
       l.promise.made =>
          /\ l.promise.settled = "resolved"
          /\ l.promise.text =
                IF l.outcome.threw
                THEN <<Tok("word", <<"Error: ">>), Tok("word", <<l.outcome.cause>>)>>
                ELSE IF Truthy(l.outcome.readme) THEN <<Tok("text", <<l.outcome.readme.value>>)>>
                ELSE <<Tok("text", <<"No details available">>)>>
    /\ LET l == lookup["npm-search"] IN
       l.promise.made =>
          /\ l.promise.settled = "resolved"
          /\ IF l.outcome.threw
             THEN l.promise.text =
                     <<Tok("word", <<"Error: ">>), Tok("word", <<l.outcome.cause>>)>>
             ELSE IF l.outcome.objects = <<>>
             THEN l.promise.text =
                     <<Tok("word", <<"Error: ">>), Tok("word", <<"no results">>)>>
             ELSE LET info == JSONparse(l.promise.text) IN
                  /\ info.ok
                  /\ info.val.type = "array"
                  /\ Len(info.val.items) = Len(l.outcome.objects)
                  /\ \A i \in DOMAIN l.outcome.objects :
                        /\ MemberKeys(info.val.items[i].val)
                              = {kName, kDescription, <<"score">>}
                        /\ Get(info.val.items[i].val, kName) = Str(<<l.outcome.objects[i]>>)

C7_Witness ==
    /\ lookup["npm-info"].promise.made
    /\ lookup["npm-info"].outcome.threw
    /\ lookup["npm-info"].promise.settled = "resolved"
    /\ lookup["npm-search"].promise.made
    /\ lookup["npm-search"].outcome.objects = <<>>
    /\ ~lookup["npm-search"].outcome.threw

\* C8: a call issues chain.call at most once and on no second chain; when
\* chain.call rejects or a later step fails, the call rejects with that
\* failure and returns no tool.
C8_NoRetryNoFallback ==
    \A c \in CallIds :
        /\ Len(calls[c].invoked) <= 1
        /\ \A n \in DOMAIN calls[c].invoked : calls[c].invoked[n] = calls[c].chain
        /\ Done(c) /\ calls[c].rejected =>
              /\ calls[c].result.status = "thrown"
              /\ calls[c].result.error.name = "TransportError"
        /\ Done(c) /\ calls[c].generated.status = "thrown" =>
              /\ calls[c].result.status = "thrown"
              /\ calls[c].result.error = calls[c].generated.error
        /\ Done(c) =>
              /\ calls[c].result.status \in {"thrown", "returned"}
              /\ calls[c].result.status = "thrown" => calls[c].result.tool = NoTool

C8_Witness ==
    \E c1, c2 \in CallIds :
        /\ Done(c1) /\ calls[c1].rejected /\ calls[c1].result.status = "thrown"
        /\ Done(c2) /\ calls[c2].generated.status = "returned"
        /\ calls[c2].result.error.name = "ZodError"

ExpectedKey(chain) == IF chain = "generator" THEN "text" ELSE "output"

\* C9 (as stated): generate fails with the error naming the expected key
\* ('text' for the simple chain, 'output' for the others) exactly when the
\* response lacks that field, and returns the field's value whenever the
\* response has it.
C9_FailsIffFieldMissing ==
    \A c \in CallIds :
        Done(c) /\ ~calls[c].rejected =>
            LET has == calls[c].response.key = ExpectedKey(calls[c].chain) IN
            /\ IsMissingOutput(calls[c].generated) <=> ~has
            /\ has => calls[c].generated = Generated(calls[c].response.value)

\* C9 (amended): generate fails with the error naming the expected key
\* exactly when the response lacks that field or holds the empty string in
\* it, and returns the field's value whenever it is a non-empty string.
C9_FailsIffFieldFalsy ==
    \A c \in CallIds :
        Done(c) /\ ~calls[c].rejected =>
            LET key == ExpectedKey(calls[c].chain)
                usable == calls[c].response.key = key /\ calls[c].response.value # <<>>
            IN /\ IsMissingOutput(calls[c].generated) <=> ~usable
               /\ ~usable => calls[c].generated.error.detail = <<Tok("word", <<key>>)>>
               /\ usable => calls[c].generated = Generated(calls[c].response.value)

C9_Witness ==
    \E c1, c2 \in CallIds :
        /\ Done(c1) /\ calls[c1].chain = "generator"
        /\ calls[c1].response = ResponseValues("text", <<>>)
        /\ IsMissingOutput(calls[c1].generated)
        /\ Done(c2) /\ calls[c2].chain = "executor"
        /\ calls[c2].response = ResponseValues("output", NotJson)
        /\ calls[c2].generated = Generated(NotJson)

\* C10: the slug of every tool parseResponse returns is slugify(name) of the
\* response's name, so two responses with the same name get the same slug
\* whatever else they hold, a slug key of their own included.
C10_SlugDependsOnNameOnly ==
    \A i, j \in DOMAIN parse :
        parse[i].out.status = "returned" /\ parse[j].out.status = "returned" =>
            /\ parse[i].out.tool.slug = slugify(Get(parse[i].value, kName).s)
            /\ Get(parse[i].value, kName) = Get(parse[j].value, kName) =>
                  parse[i].out.tool.slug = parse[j].out.tool.slug

C10_Witness ==
    /\ Len(parse) = 2
    /\ parse[1].out.status = "returned" /\ parse[2].out.status = "returned"
    /\ Get(parse[1].value, kName) = Str(<<"A", " ">>)
    /\ Get(parse[2].value, kName) = Str(<<"A", " ">>)
    /\ Get(parse[1].value, kSlug).type = "string"
    /\ Get(parse[2].value, kSlug).type = "undefined"
    /\ Get(parse[1].value, kDescription) # Get(parse[2].value, kDescription)
    /\ parse[1].out.tool.slug = <<"a">>

====
